---- MODULE Spec2Model ----
(***************************************************************************)
(* StoryWeaver GraphViewer (src/components/Editor.tsx, lines 35-367): the  *)
(* graph build of the render effect, and the life cycle of the d3 force    *)
(* simulations the component creates, stops and restarts.                  *)
(*                                                                         *)
(* Strings that the code concatenates (node ids) are sequences of          *)
(* one-character strings, so that `${a}|${b}` is a real concatenation.     *)
(***************************************************************************)
EXTENDS Integers, Sequences, FiniteSets, Bags, TLC

(* ---------------- bounds of the graph-build input space ---------------- *)
MaxNodes == 2
MaxChoices == 1

Sep == <<"|">>
\* node ids the inputs are drawn from; one of them contains the separator
Ids == { <<"a">>, <<"b">>, <<"a", "|", "a">> }
Labels == { "go" }

SeqsUpTo(S, n) == UNION { [1..k -> S] : k \in 0..n }

\* DialogueChoice (src/unnamed/part_000:3-7)
DialogueChoice == [text : Labels, nextId : Ids]
\* DialogueNode (src/unnamed/part_000:9-17); an absent choices list behaves
\* as the empty one (Editor.tsx:117, 128)
DialogueNode == [id : Ids, choices : SeqsUpTo(DialogueChoice, MaxChoices)]
BuildInputs == SeqsUpTo(DialogueNode, MaxNodes)

(* ------------------------- the graph build ----------------------------- *)
\* new Map(nodes.map(n => [n.id, n])): the keys of the lookup
nodeMap(data) == { data[i].id : i \in DOMAIN data }

\* `${a}|${b}`
Key(a, b) == a \o Sep \o b

\* data.forEach(node => node.choices.forEach(choice => ...)): the visited
\* (node, choice) pairs in iteration order
RECURSIVE ChoiceWalk(_)
ChoiceWalk(data) ==
  IF data = <<>> THEN <<>>
  ELSE [k \in DOMAIN Head(data).choices |->
          [source |-> Head(data).id,
           target |-> Head(data).choices[k].nextId,
           label  |-> Head(data).choices[k].text]]
       \o ChoiceWalk(Tail(data))

Resolves(data, c) == c.target \in nodeMap(data)

\* first pass (Editor.tsx:113-124)
linkExistenceMap(data) ==
  LET w == ChoiceWalk(data)
  IN { Key(w[k].source, w[k].target) : k \in { j \in DOMAIN w : Resolves(data, w[j]) } }

\* a second pass that puts each new link in front of the array
RECURSIVE MapLinksUnshift(_, _)
MapLinksUnshift(data, w) ==
  IF w = <<>> THEN <<>>
  ELSE LET c == Head(w)
       IN MapLinksUnshift(data, Tail(w))
          \o (IF Resolves(data, c)
              THEN << [source |-> c.source, target |-> c.target, label |-> c.label,
                       bidirectional |-> Key(c.target, c.source) \in linkExistenceMap(data)] >>
              ELSE <<>>)

RECURSIVE MapLinks(_, _)
MapLinks(data, w) ==
  IF w = <<>> THEN <<>>
  ELSE LET c == Head(w)
       IN (IF Resolves(data, c)
           THEN << [source |-> c.source, target |-> c.target, label |-> c.label,
                    bidirectional |-> Key(c.target, c.source) \in linkExistenceMap(data)] >>
           ELSE <<>>)
          \o MapLinks(data, Tail(w))

\* a build that pushes every choice, resolvable or not
RECURSIVE MapLinksNoCheck(_, _)
MapLinksNoCheck(data, w) ==
  IF w = <<>> THEN <<>>
  ELSE LET c == Head(w)
       IN << [source |-> c.source, target |-> c.target, label |-> c.label,
              bidirectional |-> Key(c.target, c.source) \in linkExistenceMap(data)] >>
          \o MapLinksNoCheck(data, Tail(w))

LinksNoCheck(data) == MapLinksNoCheck(data, ChoiceWalk(data))

\* second pass (Editor.tsx:126-143): the links array
Links(data) == MapLinks(data, ChoiceWalk(data))

RECURSIVE MapWarnings(_, _)
MapWarnings(data, w) ==
  IF w = <<>> THEN <<>>
  ELSE (IF Resolves(data, Head(w)) THEN <<>> ELSE << Head(w).target >>)
       \o MapWarnings(data, Tail(w))

\* console.warn(`Missing target node: ${choice.nextId}`), one per call
Warnings(data) == MapWarnings(data, ChoiceWalk(data))

NoBuild == [built |-> FALSE]

\* bData, bOut: the input and the result of one graph build;
\* fIn, fOut: the argument and the result of one call of a pure function
VARIABLES bData, bOut, fIn, fOut

bvars == <<bData, bOut, fIn, fOut>>

NoCall == [called |-> FALSE]
NoArg == [fn |-> "none"]

(* ------------------- the path of a link (tick handler) ----------------- *)
\* const radius = 28 (Editor.tsx:270)
Radius == 28

\* the coordinates node centres are drawn from, and the centre pairs whose
\* distance is a whole number (axis-parallel pairs and 3-4-5 triangles)
Coords == { 0, 6, 8, 24, 28, 32, 56, 60, 80 }
CoordMax == CHOOSE c \in Coords : \A d \in Coords : d <= c
Centres == Coords \X Coords

\* Math.sqrt on the perfect squares: bisection between lo and hi
RECURSIVE SqrtBetween(_, _, _)
SqrtBetween(n, lo, hi) ==
  IF lo >= hi THEN lo
  ELSE LET mid == (lo + hi + 1) \div 2
       IN IF mid * mid <= n THEN SqrtBetween(n, mid, hi)
          ELSE SqrtBetween(n, lo, mid - 1)

\* 46340 is the largest root whose square is a 32-bit integer
Sqrt(n) == SqrtBetween(n, 0, IF n < 46340 THEN n ELSE 46340)

IsSquare(n) == Sqrt(n) * Sqrt(n) = n

WholeDistance(s, t) ==
  IsSquare((t[1] - s[1]) * (t[1] - s[1]) + (t[2] - s[2]) * (t[2] - s[2]))

PathInputs ==
  { [fn |-> "linkPath", source |-> st[1], target |-> st[2], bidirectional |-> b] :
      st \in { q \in Centres \X Centres : WholeDistance(q[1], q[2]) },
      b \in BOOLEAN }

\* The numbers of Editor.tsx:259-279 are IEEE doubles.  With whole
\* coordinates and the ends on one horizontal or vertical line every
\* operation is exact (dist is |dx| or |dy|, ux and uy are 0, 1 or -1);
\* on any other pair ux and uy are rounded quotients and the numbers of the
\* path are the exact fractions rounded.
Rounded(s, t) == t[1] - s[1] # 0 /\ t[2] - s[2] # 0

\* a tick handler that draws every link as a straight segment
linkPathDStraight(s, t, bidirectional) ==
  LET dx == t[1] - s[1]
      dy == t[2] - s[2]
      dist == Sqrt(dx * dx + dy * dy)
  IN IF dist = 0 THEN [kind |-> ""]
     ELSE [kind |-> "L", den |-> dist, rounded |-> Rounded(s, t),
           sx |-> s[1] * dist + dx * Radius, sy |-> s[2] * dist + dy * Radius,
           tx |-> t[1] * dist - dx * Radius, ty |-> t[2] * dist - dy * Radius]

\* linkPath.attr("d", ...) (Editor.tsx:258-290) for a link whose ends are at
\* s and t.  kind "" is the empty string, "A" the arc `M..A..` and "L" the
\* line `M..L..`.  ux and uy are fractions over dist, and so are the numbers
\* of the path: sx, sy, tx, ty and r are their numerators over den = dist.
\* Where rounded is TRUE the numbers the code emits are these fractions up
\* to the rounding of the double arithmetic, where it is FALSE they are
\* these fractions.
linkPathD(s, t, bidirectional) ==
  LET dx == t[1] - s[1]
      dy == t[2] - s[2]
      dist == Sqrt(dx * dx + dy * dy)
      sx == s[1] * dist + dx * Radius
      sy == s[2] * dist + dy * Radius
      tx == t[1] * dist - dx * Radius
      ty == t[2] * dist - dy * Radius
      ddist == Sqrt((tx - sx) * (tx - sx) + (ty - sy) * (ty - sy))
  IN IF dist = 0 THEN [kind |-> ""]
     ELSE IF bidirectional
          THEN [kind |-> "A", den |-> dist, rounded |-> Rounded(s, t),
                sx |-> sx, sy |-> sy,
                rx |-> ddist, ry |-> ddist, rotation |-> 0, largeArc |-> 0,
                sweep |-> 0, tx |-> tx, ty |-> ty]
          ELSE [kind |-> "L", den |-> dist, rounded |-> Rounded(s, t),
                sx |-> sx, sy |-> sy, tx |-> tx, ty |-> ty]

\* one call of linkPath's "d" function
CallLinkPath ==
  /\ fOut = NoCall
  /\ fIn.fn = "linkPath"
  /\ fOut' = [called |-> TRUE,
              path |-> linkPathD(fIn.source, fIn.target, fIn.bidirectional)]
  /\ UNCHANGED <<fIn, bData, bOut>>

\* C11: for non-coincident centres the path starts 28 units from the source
\* centre and ends 28 units from the target centre, both along the
\* source-to-target direction; both endpoints lie on the closed segment
\* between the centres, the start no farther from the source than the end.
C11_EndpointsOnSegment ==
  (fOut.called /\ fIn.fn = "linkPath" /\ fOut.path.kind # "") =>
     LET p == fOut.path
         D == p.den
         dx == fIn.target[1] - fIn.source[1]
         dy == fIn.target[2] - fIn.source[2]
         \* start - source, target - end, target - start, end - source (times D)
         ax == p.sx - fIn.source[1] * D
         ay == p.sy - fIn.source[2] * D
         bx == fIn.target[1] * D - p.tx
         by == fIn.target[2] * D - p.ty
         cx == fIn.target[1] * D - p.sx
         cy == fIn.target[2] * D - p.sy
         ex == p.tx - fIn.source[1] * D
         ey == p.ty - fIn.source[2] * D
     IN /\ ax * ax + ay * ay = (Radius * D) * (Radius * D)
        /\ bx * bx + by * by = (Radius * D) * (Radius * D)
        /\ ax * dy = ay * dx /\ ax * dx + ay * dy > 0
        /\ bx * dy = by * dx /\ bx * dx + by * dy > 0
        /\ ax * cx + ay * cy >= 0
        /\ ex * bx + ey * by >= 0
        /\ ax * ax + ay * ay <= ex * ex + ey * ey

\* the path is shortened: it runs from source + 28 u to target - 28 u, u
\* the unit vector from source to target (numerators over p.den; of the
\* emitted doubles this holds exactly where p.rounded is FALSE and up to
\* their rounding where it is TRUE)
Shortened(p, s, t) ==
  /\ p.sx = s[1] * p.den + (t[1] - s[1]) * Radius
  /\ p.sy = s[2] * p.den + (t[2] - s[2]) * Radius
  /\ p.tx = t[1] * p.den - (t[1] - s[1]) * Radius
  /\ p.ty = t[2] * p.den - (t[2] - s[2]) * Radius
  /\ p.den * p.den = (t[1] - s[1]) * (t[1] - s[1]) + (t[2] - s[2]) * (t[2] - s[2])
  /\ p.rounded = Rounded(s, t)

\* C12: the path is empty exactly when the centres coincide; otherwise a
\* bidirectional link gets a circular arc between the shortened endpoints,
\* always with sweep flag 0 and with radius equal to the length of the
\* shortened chord, and any other link the straight shortened segment.  The
\* arc of the link in the opposite direction joins the same two points the
\* other way round with the same sweep flag, so the two arcs of a pair bend
\* to opposite sides.  The radius is the code's Math.sqrt of the squared
\* chord: equal to the chord exactly where the path is not rounded, up to
\* the rounding of the doubles where it is.
C12_PathKinds ==
  (fOut.called /\ fIn.fn = "linkPath") =>
     LET p == fOut.path
         s == fIn.source
         t == fIn.target
         back == linkPathD(t, s, fIn.bidirectional)
     IN /\ p.kind = "" <=> s = t
        /\ (s # t /\ ~fIn.bidirectional) => (p.kind = "L" /\ Shortened(p, s, t))
        /\ (s # t /\ fIn.bidirectional) =>
              /\ p.kind = "A" /\ Shortened(p, s, t)
              /\ p.sweep = 0 /\ p.largeArc = 0 /\ p.rx = p.ry
              /\ p.rx * p.rx = (p.tx - p.sx) * (p.tx - p.sx) + (p.ty - p.sy) * (p.ty - p.sy)
              /\ back.kind = "A" /\ back.sweep = p.sweep
              /\ back.sx = p.tx /\ back.sy = p.ty /\ back.tx = p.sx /\ back.ty = p.sy

\* an arc of positive radius has been emitted for a bidirectional link whose
\* ends are on no common horizontal or vertical line
C12_Witness ==
  /\ fOut.called /\ fIn.fn = "linkPath"
  /\ fIn.bidirectional /\ fOut.path.kind = "A" /\ fOut.path.rx > 0
  /\ fOut.path.rounded

(* ------------------------ the displayed texts -------------------------- *)
\* texts are sequences of UTF-16 code units, as length and substring see them
TruncLen == 25
Ellipsis == << ".", ".", "." >>
Quote == << "\"" >>
\* the longest text of the inputs
MaxTextLen == 27

\* texts of every length up to MaxTextLen, all "a" but for an "x" at place k
TextInputs ==
  { [fn |-> f, text |-> [i \in 1..n |-> IF i = k THEN "x" ELSE "a"]] :
      f \in {"linkText", "nodeText"}, n \in 0..MaxTextLen, k \in 0..MaxTextLen }

\* a label cut one unit early
linkTextEarly(label) ==
  IF Len(label) >= TruncLen THEN SubSeq(label, 1, TruncLen) \o Ellipsis ELSE label

\* d.label.length > 25 ? d.label.substring(0, 25) + '...' : d.label
linkText(label) ==
  IF Len(label) > TruncLen THEN SubSeq(label, 1, TruncLen) \o Ellipsis ELSE label

\* d.text.length > 25 ? `"${d.text.substring(0, 25)}..."` : `"${d.text}"`
nodeText(text) ==
  IF Len(text) > TruncLen
  THEN Quote \o SubSeq(text, 1, TruncLen) \o Ellipsis \o Quote
  ELSE Quote \o text \o Quote

\* one call of the text function of a link label or of a node's content
CallText ==
  /\ fOut = NoCall
  /\ fIn.fn \in {"linkText", "nodeText"}
  /\ fOut' = [called |-> TRUE,
              shown |-> IF fIn.fn = "linkText" THEN linkText(fIn.text)
                        ELSE nodeText(fIn.text)]
  /\ UNCHANGED <<fIn, bData, bOut>>

\* the shown text without the quotes around an on-node text
Unquoted(fn, shown) ==
  IF fn = "nodeText" THEN SubSeq(shown, 2, Len(shown) - 1) ELSE shown

\* C13: a text of 26 or more code units is shown as its first 25 followed
\* by "...", a text of 25 or fewer as it is; the on-node text is in
\* addition wrapped in double quotes.
C13_Truncation ==
  (fOut.called /\ fIn.fn \in {"linkText", "nodeText"}) =>
     LET t == fIn.text
         u == Unquoted(fIn.fn, fOut.shown)
     IN /\ fIn.fn = "nodeText" =>
              /\ Len(fOut.shown) >= 2
              /\ fOut.shown[1] = "\"" /\ fOut.shown[Len(fOut.shown)] = "\""
        /\ Len(t) <= TruncLen => u = t
        /\ Len(t) >= TruncLen + 1 =>
              /\ Len(u) = TruncLen + 3
              /\ \A i \in 1..TruncLen : u[i] = t[i]
              /\ \A i \in (TruncLen + 1)..(TruncLen + 3) : u[i] = "."

\* an on-node text of 26 code units has been cut
C13_Witness ==
  /\ fOut.called /\ fIn.fn = "nodeText"
  /\ Len(fIn.text) = TruncLen + 1
  /\ Len(fOut.shown) = TruncLen + 5

UniqueIds(data) == \A i, j \in DOMAIN data : data[i].id = data[j].id => i = j

HasEdge(ls, a, b) == \E k \in DOMAIN ls : ls[k].source = a /\ ls[k].target = b

\* C1: with unique ids, a built edge A->B is flagged bidirectional exactly
\* when the built edge set contains an edge B->A.
C1_BidirectionalIffReverse ==
  (bOut.built /\ UniqueIds(bData)) =>
     \A k \in DOMAIN bOut.links :
        bOut.links[k].bidirectional
          <=> HasEdge(bOut.links, bOut.links[k].target, bOut.links[k].source)

\* the input with every choice whose nextId matches no node id removed
WithoutDangling(data) ==
  [i \in DOMAIN data |->
     [id |-> data[i].id,
      choices |-> SelectSeq(data[i].choices, LAMBDA c : c.nextId \in nodeMap(data))]]

DanglingCount(data) ==
  Cardinality({ k \in DOMAIN ChoiceWalk(data) : ~Resolves(data, ChoiceWalk(data)[k]) })

\* C2: a choice whose nextId matches no node id yields no edge and exactly
\* one warning; the build completes, and the edges of the other choices
\* (source, target, label, bidirectional flag, order) are those the input
\* without the dangling choices yields.
C2_DanglingDropped ==
  bOut.built =>
     /\ \A k \in DOMAIN bOut.links : bOut.links[k].target \in nodeMap(bData)
     /\ Len(bOut.links) + DanglingCount(bData) = Len(ChoiceWalk(bData))
     /\ Len(bOut.warnings) = DanglingCount(bData)
     /\ \A k \in DOMAIN bOut.warnings : bOut.warnings[k] \notin nodeMap(bData)
     /\ bOut.links = Links(WithoutDangling(bData))

\* a build that met a dangling choice next to resolvable ones
C2_Witness ==
  /\ bOut.built
  /\ Len(bOut.warnings) >= 1
  /\ Len(bOut.links) >= 1
  /\ \E k \in DOMAIN bOut.links : bOut.links[k].bidirectional

(* ======================================================================= *)
(* The GraphViewer component: its props and state, the simulation that      *)
(* simulationRef.current points to, the simulations it has replaced, the    *)
(* content of the svg element and the drag gestures in flight.              *)
(* ======================================================================= *)

(* ------------------------------ bounds --------------------------------- *)
\* simulations that are reachable at the same time (a replaced simulation
\* whose timer is stopped and that no gesture refers to is garbage)
MaxSims == 2
\* concurrently active drag gestures (mouse: one; touch: one per finger)
MaxGestures == 2
\* d3's alphaDecay is 1 - 0.001^(1/300), about 1/44; a tick of the model
\* moves alpha by 1/DecayDen of its distance to alphaTarget
DecayDen == 2

(* ------------------------ program constants ---------------------------- *)
\* alpha is counted in tenths: d3 starts a simulation at alpha 1, the code
\* resets alpha and alphaTarget to 0.3, and d3's alphaMin (0.001) is the
\* smallest positive amount the model tells apart
AlphaInit == 10
AlphaMin == 1
AlphaReset == 3
DragAlphaTarget == 3
DefaultRepulsion == 1500
Null == -1

\* the grid points that pointer coordinates are drawn from
Points == { <<0, 0>>, <<1, 1>> }
\* ((Math.random() - 0.5) * 50, (Math.random() - 0.5) * 50), on the grid
Jitter == { <<-1, -1>>, <<0, 0>> }
Repulsions == {1500, 5000}
\* the state before the first handleResize, and the sizes of the container
ZeroDim == [width |-> 0, height |-> 0]
Dims == { [width |-> 2, height |-> 2] }

Ghost == <<"g">>
\* one node with a dangling choice and a choice to itself
DataA ==
  << [id |-> <<"a">>,
      choices |-> << [text |-> "go", nextId |-> Ghost],
                     [text |-> "stay", nextId |-> <<"a">>] >>] >>
DataSets == { <<>>, DataA }

\* zoom scales are counted in tenths: scaleExtent([0.1, 4]), d3's identity
\* transform has scale 1
ZoomMin == 1
ZoomMax == 40
IdentityScale == 10
\* the factors (numerator, denominator) a zoom event asks the scale to
\* change by, and the translations it asks for
ZoomFactors == { <<40, 1>>, <<1, 40>> }
Pans == { <<1, 1>> }
\* d3.zoomIdentity; a g without a transform attribute is drawn with it
Identity == [k |-> IdentityScale, x |-> 0, y |-> 0]

VARIABLES
  data,            \* prop data
  dimensions,      \* state dimensions
  isDarkMode,      \* prop isDarkMode
  repulsionForce,  \* prop repulsionForce
  simulationRef,   \* the simulation simulationRef.current points to (NoSim: null)
  cleanup,         \* TRUE iff the last run of the render effect returned a
                   \* cleanup (it stops the simulation of simulationRef)
  svg,             \* TRUE iff the svg holds the elements of that simulation
  detached,        \* bag of the replaced simulations that are still reachable
  consoleWarn,     \* the console.warn calls of the last render-effect run
  onErrorCalls,    \* the number of calls of the onError prop made so far
  zoomT,           \* the zoom transform d3-zoom keeps on the svg element
  gT,              \* the transform the rendered group g is drawn with
  zoomGesture,     \* the pointer gesture of d3-zoom in flight on the svg: "none",
                   \* "live" (begun on the zoom behaviour of the last build) or
                   \* "stale" (begun on the behaviour of a build since replaced)
  pending          \* the passive effect React has still to run for the last
                   \* commit: "none", or the dependency that changed

zvars == <<zoomT, gT, zoomGesture>>

\* what React holds of the component: props, state and the effect to run
rvars == <<data, dimensions, isDarkMode, repulsionForce, pending>>

vars == <<rvars, simulationRef, cleanup, svg, detached, consoleWarn,
          onErrorCalls, zvars>>

\* simulationRef.current = null
NoSim ==
  [alive |-> FALSE, alpha |-> 0, alphaTarget |-> 0, running |-> FALSE,
   charge |-> 0, centre |-> <<0, 0>>, nodes |-> <<>>, links |-> <<>>,
   paths |-> <<>>]

\* nodes: data.map(d => ({id, x, y})) with the jitter j[i] of node i
\* (Editor.tsx:102-110); fx and fy are absent on a new node.  grabs counts
\* the drag gestures in flight whose subject is the node.
GraphNodes(d, dim, j) ==
  [i \in DOMAIN d |->
     [id |-> d[i].id,
      x |-> dim.width \div 2 + j[i][1],
      y |-> dim.height \div 2 + j[i][2],
      fx |-> Null, fy |-> Null, grabs |-> 0]]

NodeIndex(nodes, id) == CHOOSE i \in DOMAIN nodes : nodes[i].id = id

\* a tick handler without the test for coincident ends
PathKindAlwaysDrawn(nodes, l) == IF l.bidirectional THEN "A" ELSE "L"

\* the "d" attribute the tick handler gives a link (Editor.tsx:258-290),
\* by its shape: "" for coincident ends, an arc "A" or a line "L"
PathKind(nodes, l) ==
  LET s == nodes[NodeIndex(nodes, l.source)]
      t == nodes[NodeIndex(nodes, l.target)]
  IN IF t.x - s.x = 0 /\ t.y - s.y = 0 THEN ""
     ELSE IF l.bidirectional THEN "A" ELSE "L"

\* a simulation created with the charge of the default repulsion
NewSimDefaultCharge(d, dim, rep, j) ==
  [alive |-> TRUE, alpha |-> AlphaInit, alphaTarget |-> 0, running |-> TRUE,
   charge |-> -DefaultRepulsion,
   centre |-> <<dim.width \div 2, dim.height \div 2>>,
   nodes |-> GraphNodes(d, dim, j),
   links |-> Links(d),
   paths |-> [k \in DOMAIN Links(d) |-> "unset"]]

\* d3.forceSimulation(nodes)... (Editor.tsx:146-150): alpha 1, alphaTarget
\* 0, timer started; the paths have no "d" before the first tick
NewSim(d, dim, rep, j) ==
  [alive |-> TRUE, alpha |-> AlphaInit, alphaTarget |-> 0, running |-> TRUE,
   charge |-> -rep,
   centre |-> <<dim.width \div 2, dim.height \div 2>>,
   nodes |-> GraphNodes(d, dim, j),
   links |-> Links(d),
   paths |-> [k \in DOMAIN Links(d) |-> "unset"]]

RECURSIVE SumGrabs(_)
SumGrabs(nodes) == IF nodes = <<>> THEN 0 ELSE Head(nodes).grabs + SumGrabs(Tail(nodes))

\* the counter "active" of the drag behaviour created with the simulation
Active(sim) == SumGrabs(sim.nodes)

\* Once a simulation is no longer simulationRef.current its elements have
\* left the svg (Editor.tsx:82) and nothing can restart its timer: what is
\* kept of it is its timer, its gestures in flight and, while the timer
\* runs, its alphaTarget.  Its alpha is not kept: with alphaTarget 0 it
\* decays and some tick finds it below alphaMin, with alphaTarget 0.3 none does.
Settle(r) == IF r.running THEN r ELSE [r EXCEPT !.alphaTarget = 0]

Detach(sim) ==
  Settle([alphaTarget |-> sim.alphaTarget,
          running |-> sim.running, active |-> Active(sim)])

\* a replaced simulation stays reachable through its running timer or
\* through the closure of a gesture in flight
Reachable(r) == r.running \/ r.active > 0

Keep(bag, r) == IF Reachable(r) THEN bag (+) SetToBag({Settle(r)}) ELSE bag
Replace(bag, r, q) == Keep(bag (-) SetToBag({r}), q)

RECURSIVE SumActive(_, _)
SumActive(bag, S) ==
  IF S = {} THEN 0
  ELSE LET r == CHOOSE x \in S : TRUE
       IN r.active * CopiesIn(r, bag) + SumActive(bag, S \ {r})

GesturesInFlight == Active(simulationRef) + SumActive(detached, BagToSet(detached))

ViewerInit ==
  /\ data = <<>>
  /\ dimensions = ZeroDim
  /\ isDarkMode = TRUE
  /\ repulsionForce = DefaultRepulsion
  /\ simulationRef = NoSim
  /\ cleanup = FALSE
  /\ svg = FALSE
  /\ detached = EmptyBag
  /\ consoleWarn = <<>>
  /\ onErrorCalls = 0
  /\ zoomT = Identity
  /\ gT = Identity
  /\ zoomGesture = "none"
  /\ pending = "none"

Init == ViewerInit /\ bData = <<>> /\ bOut = NoBuild /\ fIn = NoArg /\ fOut = NoCall

allvars == <<vars, bvars>>

\* simulation.stop() of the effect cleanup (Editor.tsx:352-354)
RunCleanup(sim) ==
  IF cleanup THEN [sim EXCEPT !.running = FALSE] ELSE sim

\* The render effect (Editor.tsx:78-355) for the new values d, dim of its
\* dependencies: the cleanup of the previous run, then the effect body.
\* The new g has no transform attribute; svg.call(zoom) keeps the zoom
\* transform the svg element already has.  A zoom gesture in flight keeps
\* the listener of the behaviour it began on, whose g has left the svg.
RenderEffect(d, dim) ==
  LET stopped == RunCleanup(simulationRef)
  IN IF d = <<>> \/ dim.width = 0
     THEN /\ simulationRef' = stopped
          /\ cleanup' = FALSE
          /\ consoleWarn' = <<>>
          /\ UNCHANGED <<svg, detached, gT, zoomGesture>>
     ELSE /\ detached' = IF stopped.alive THEN Keep(detached, Detach(stopped))
                         ELSE detached
          /\ \E j \in [DOMAIN d -> Jitter] :
               simulationRef' = NewSim(d, dim, repulsionForce, j)
          /\ svg' = TRUE
          /\ gT' = Identity
          /\ zoomGesture' = IF zoomGesture = "live" THEN "stale" ELSE zoomGesture
          /\ cleanup' = TRUE
          /\ consoleWarn' = Warnings(d)

\* The commits of React.  A commit stores the new props and state; the
\* passive effects (useEffect) whose dependency changed are a second callback
\* that React calls after the commit.  Whether a timer or a pointer event can
\* run between the two is decided by the scheduler of React, which is not
\* part of the source: a commit and its effect are two steps, and the
\* schedule in which the effect follows at once is the behaviour in which
\* the second step is the next one.  React runs the effects of a commit
\* before it renders again, so no commit finds an effect pending.
Mounted == dimensions # ZeroDim

\* the bound on the simulations kept: a commit whose render effect will
\* build a graph is taken only if the replaced simulation can be kept
Fits(d) ==
  d # <<>> =>
    BagCardinality(detached) + (IF simulationRef.alive THEN 1 ELSE 0) < MaxSims

\* the first commit after the mount: setDimensions of handleResize
\* (Editor.tsx:56, called at 63) and setParsedData of the parse effect
\* (App.tsx:31) are batched into one render
MountCommit(d, dim) ==
  /\ ~Mounted /\ pending = "none"
  /\ d # <<>>
  /\ data' = d /\ dimensions' = dim
  /\ pending' = "mount"
  /\ UNCHANGED <<isDarkMode, repulsionForce, simulationRef, cleanup, svg,
                 detached, consoleWarn, onErrorCalls, zvars, bvars>>

\* a new data prop (App.tsx:31 stores a fresh array on every parse)
DataChange(d) ==
  /\ Mounted /\ pending = "none" /\ Fits(d)
  /\ data' = d
  /\ pending' = "data"
  /\ UNCHANGED <<dimensions, isDarkMode, repulsionForce, simulationRef, cleanup,
                 svg, detached, consoleWarn, onErrorCalls, zvars, bvars>>

\* handleResize (Editor.tsx:54-61): setDimensions stores a fresh object
Resize(dim) ==
  /\ Mounted /\ pending = "none" /\ Fits(data)
  /\ dimensions' = dim
  /\ pending' = "size"
  /\ UNCHANGED <<data, isDarkMode, repulsionForce, simulationRef, cleanup,
                 svg, detached, consoleWarn, onErrorCalls, zvars, bvars>>

\* a flipped isDarkMode prop (App.tsx:81)
ThemeChange ==
  /\ Mounted /\ pending = "none" /\ Fits(data)
  /\ isDarkMode' = ~isDarkMode
  /\ pending' = "theme"
  /\ UNCHANGED <<data, dimensions, repulsionForce, simulationRef, cleanup,
                 svg, detached, consoleWarn, onErrorCalls, zvars, bvars>>

\* a new repulsionForce prop (App.tsx:146-150)
RepulsionChange(r) ==
  /\ Mounted /\ pending = "none"
  /\ r # repulsionForce
  /\ repulsionForce' = r
  /\ pending' = "repulsion"
  /\ UNCHANGED <<data, dimensions, isDarkMode, simulationRef, cleanup,
                 svg, detached, consoleWarn, onErrorCalls, zvars, bvars>>

\* the render effect runs for the commit that changed data, dimensions or
\* isDarkMode (dependencies at Editor.tsx:355)
RunRenderEffect ==
  /\ pending \in {"mount", "data", "size", "theme"}
  /\ RenderEffect(data, dimensions)
  /\ pending' = "none"
  /\ UNCHANGED <<data, dimensions, isDarkMode, repulsionForce, onErrorCalls,
                 zoomT, bvars>>

\* a repulsion effect that sets the force and alpha but starts no timer
ReenergizeNoRestart(sim, r) ==
  [sim EXCEPT !.charge = -r, !.alpha = AlphaReset]

\* simulationRef.current.force("charge", ...).alpha(0.3).restart()
Reenergize(sim, r) ==
  [sim EXCEPT !.charge = -r, !.alpha = AlphaReset, !.running = TRUE]

\* the repulsion effect (Editor.tsx:68-75) runs for the commit that changed
\* repulsionForce
RunRepulsionEffect ==
  /\ pending = "repulsion"
  /\ simulationRef' = IF simulationRef.alive
                      THEN Reenergize(simulationRef, repulsionForce)
                      ELSE simulationRef
  /\ pending' = "none"
  /\ UNCHANGED <<data, dimensions, isDarkMode, repulsionForce, cleanup, svg,
                 detached, consoleWarn, onErrorCalls, zvars, bvars>>

\* a tick that pins every node where the forces carry it
TickNodePinning(n, px, py) == [n EXCEPT !.x = px, !.y = py, !.fx = px, !.fy = py]

\* a tick that moves every node to where the forces carry it
TickNodeIgnorePin(n, px, py) == [n EXCEPT !.x = px, !.y = py]

\* the position update of d3's tick for one node: a pinned coordinate is
\* set to the pin, a free one to where the forces carry it (px, py)
TickNode(n, px, py) ==
  [n EXCEPT !.x = IF n.fx # Null THEN n.fx ELSE px,
            !.y = IF n.fy # Null THEN n.fy ELSE py]

Max(a, b) == IF a >= b THEN a ELSE b

\* alpha += (alphaTarget - alpha) * alphaDecay, in whole units: alpha moves
\* toward alphaTarget by the DecayDen-th part of the distance, at least one unit
Cool(alpha, target) ==
  IF alpha < target THEN alpha + Max(1, (target - alpha) \div DecayDen)
  ELSE IF alpha > target THEN alpha - Max(1, (alpha - target) \div DecayDen)
  ELSE alpha

\* d3's step(): tick(), the "tick" handler (Editor.tsx:257-331), and the
\* stop of the timer once alpha < alphaMin; p[i] is where the forces carry
\* node i
Step(sim, p) ==
  LET a == Cool(sim.alpha, sim.alphaTarget)
      ns == [i \in DOMAIN sim.nodes |-> TickNode(sim.nodes[i], p[i][1], p[i][2])]
  IN [sim EXCEPT !.alpha = a, !.nodes = ns,
                 !.paths = [k \in DOMAIN sim.links |-> PathKind(ns, sim.links[k])],
                 !.running = ~(a < AlphaMin)]

\* Where the forces of Editor.tsx:147-150 carry the nodes of a simulation of
\* a one-node list: forceCenter shifts the node to the centre, and the link
\* of the node to itself, the charge and the collision leave its velocity 0.
Carried(sim) == [i \in DOMAIN sim.nodes |-> sim.centre]

\* one firing of the timer of the simulation of simulationRef
Tick ==
  /\ simulationRef.alive /\ simulationRef.running
  /\ simulationRef' = Step(simulationRef, Carried(simulationRef))
  /\ UNCHANGED <<rvars, cleanup, svg,
                 detached, consoleWarn, onErrorCalls, zvars, bvars>>

\* the step() of a replaced simulation that finds alpha < alphaMin and
\* stops the timer
StepDetached(r) == [r EXCEPT !.running = FALSE]

\* the last firing of the timer of a replaced simulation; the firings
\* before it change nothing that is kept of the simulation
TickDetached ==
  /\ \E r \in BagToSet(detached) :
       /\ r.running /\ r.alphaTarget < AlphaMin
       /\ detached' = Replace(detached, r, StepDetached(r))
  /\ UNCHANGED <<rvars, simulationRef,
                 cleanup, svg, consoleWarn, onErrorCalls, zvars, bvars>>

\* a drag start that sets alphaTarget but starts no timer
DragStartSimNoRestart(sim, n, active) ==
  LET e == IF active = 0
           THEN [sim EXCEPT !.alphaTarget = DragAlphaTarget]
           ELSE sim
  IN [e EXCEPT !.nodes[n].fx = sim.nodes[n].x, !.nodes[n].fy = sim.nodes[n].y]

\* dragstarted (Editor.tsx:334-338); active is event.active
DragStartSim(sim, n, active) ==
  LET e == IF active = 0
           THEN [sim EXCEPT !.alphaTarget = DragAlphaTarget, !.running = TRUE]
           ELSE sim
  IN [e EXCEPT !.nodes[n].fx = sim.nodes[n].x, !.nodes[n].fy = sim.nodes[n].y]

\* a gesture starts on node element n of the svg
dragstarted(n) ==
  /\ svg
  /\ n \in DOMAIN simulationRef.nodes
  /\ GesturesInFlight < MaxGestures
  /\ simulationRef' =
       [DragStartSim(simulationRef, n, Active(simulationRef))
          EXCEPT !.nodes[n].grabs = @ + 1]
  /\ UNCHANGED <<rvars, cleanup, svg,
                 detached, consoleWarn, onErrorCalls, zvars, bvars>>

\* dragged (Editor.tsx:340-343); (ex, ey) is (event.x, event.y)
DragNode(n, ex, ey) == [n EXCEPT !.fx = ex, !.fy = ey]

dragged(n, ex, ey) ==
  /\ n \in DOMAIN simulationRef.nodes
  /\ simulationRef.nodes[n].grabs > 0
  /\ simulationRef' = [simulationRef EXCEPT !.nodes[n] = DragNode(@, ex, ey)]
  /\ UNCHANGED <<rvars, cleanup, svg,
                 detached, consoleWarn, onErrorCalls, zvars, bvars>>

\* a drag end that lowers alphaTarget whatever other gestures are in flight
DragEndSimAlways(sim, n, active) ==
  [sim EXCEPT !.alphaTarget = 0, !.nodes[n].fx = Null, !.nodes[n].fy = Null]

\* a drag end that leaves the pin in place
DragEndSimKeepPin(sim, n, active) ==
  IF active = 0 THEN [sim EXCEPT !.alphaTarget = 0] ELSE sim

\* dragended (Editor.tsx:345-349); active is event.active
DragEndSim(sim, n, active) ==
  LET e == IF active = 0 THEN [sim EXCEPT !.alphaTarget = 0] ELSE sim
  IN [e EXCEPT !.nodes[n].fx = Null, !.nodes[n].fy = Null]

dragended(n) ==
  /\ n \in DOMAIN simulationRef.nodes
  /\ simulationRef.nodes[n].grabs > 0
  /\ simulationRef' =
       [DragEndSim(simulationRef, n, Active(simulationRef) - 1)
          EXCEPT !.nodes[n].grabs = @ - 1]
  /\ UNCHANGED <<rvars, cleanup, svg,
                 detached, consoleWarn, onErrorCalls, zvars, bvars>>

\* dragended of a gesture that started on a simulation since replaced
dragendedDetached ==
  /\ \E r \in BagToSet(detached) :
       /\ r.active > 0
       /\ detached' = Replace(detached, r,
             [r EXCEPT !.active = @ - 1,
                       !.alphaTarget = IF r.active - 1 = 0 THEN 0 ELSE @])
  /\ UNCHANGED <<rvars, simulationRef,
                 cleanup, svg, consoleWarn, onErrorCalls, zvars, bvars>>

\* a zoom behaviour that applies the requested scale as it is
ClampScaleNone(k) == k

\* d3-zoom holds the scale of a transform within scaleExtent([0.1, 4])
ClampScale(k) ==
  IF k < ZoomMin THEN ZoomMin ELSE IF k > ZoomMax THEN ZoomMax ELSE k

\* event.transform of a wheel, double-click, pinch or pan gesture that asks
\* for the scale to change by f[1]/f[2] and for the translation pan
ZoomTransform(t, f, pan) ==
  [k |-> ClampScale((t.k * f[1]) \div f[2]), x |-> pan[1], y |-> pan[2]]

\* a mousedown or touchstart on the svg begins a gesture of the zoom
\* behaviour attached at Editor.tsx:163; its "start" event has no listener
zoomstarted ==
  /\ svg /\ zoomGesture = "none"
  /\ zoomGesture' = "live"
  /\ UNCHANGED <<rvars, simulationRef, cleanup, svg, detached, consoleWarn,
                 onErrorCalls, zoomT, gT, bvars>>

\* the "zoom" listener (Editor.tsx:157-163) of the behaviour of the last
\* build, on a wheel event or a move of its gesture:
\* g.attr("transform", event.transform)
zoomed(f, pan) ==
  /\ svg
  /\ zoomT' = ZoomTransform(zoomT, f, pan)
  /\ gT' = zoomT'
  /\ UNCHANGED <<rvars, simulationRef, cleanup, svg, detached, consoleWarn,
                 onErrorCalls, zoomGesture, bvars>>

\* the "zoom" listener of a replaced behaviour, on a move of the gesture
\* that began before the rebuild: d3-zoom stores the transform on the svg
\* element, the listener writes it to the g of its own run (Editor.tsx:155),
\* which the rebuild removed; the g on display is not touched
zoomedStale(f, pan) ==
  /\ zoomGesture = "stale"
  /\ zoomT' = ZoomTransform(zoomT, f, pan)
  /\ UNCHANGED <<rvars, simulationRef, cleanup, svg, detached, consoleWarn,
                 onErrorCalls, gT, zoomGesture, bvars>>

\* the mouseup or touchend of the gesture in flight
zoomended ==
  /\ zoomGesture # "none"
  /\ zoomGesture' = "none"
  /\ UNCHANGED <<rvars, simulationRef, cleanup, svg, detached, consoleWarn,
                 onErrorCalls, zoomT, gT, bvars>>

\* the steps of the simulation life cycle: every handler but the zoom listener
SimNext ==
  \/ \E d \in DataSets, dim \in Dims : MountCommit(d, dim)
  \/ \E d \in DataSets : DataChange(d)
  \/ \E dim \in Dims : Resize(dim)
  \/ ThemeChange
  \/ \E r \in Repulsions : RepulsionChange(r)
  \/ RunRenderEffect
  \/ RunRepulsionEffect
  \/ Tick
  \/ TickDetached
  \/ \E n \in 1..MaxNodes : dragstarted(n)
  \/ \E n \in 1..MaxNodes, e \in Points : dragged(n, e[1], e[2])
  \/ \E n \in 1..MaxNodes : dragended(n)
  \/ dragendedDetached

Next ==
  \/ SimNext
  \/ zoomstarted
  \/ \E f \in ZoomFactors, pan \in Pans : zoomed(f, pan)
  \/ \E f \in ZoomFactors, pan \in Pans : zoomedStale(f, pan)
  \/ zoomended

Spec == Init /\ [][Next]_allvars

\* The component without zoom gestures.  The zoom listener reads svg and
\* zoomT and writes zoomT and gT only, and no other handler reads zoomT or
\* gT: the simulation behaves under SimSpec as it does under Spec.
SimSpec == Init /\ [][SimNext]_allvars

\* the size of the viewport of the builds of BuildSpec
BuildDim == CHOOSE dim \in Dims : TRUE

\* the graph build of one run of the render effect (Editor.tsx:101-143),
\* every node drawing the jitter q
BuildResult(d, q) ==
  [built |-> TRUE,
   nodes |-> GraphNodes(d, BuildDim, [i \in DOMAIN d |-> q]),
   links |-> Links(d), warnings |-> Warnings(d)]

BuildGraph ==
  /\ bOut = NoBuild
  /\ \E q \in Jitter : bOut' = BuildResult(bData, q)
  /\ UNCHANGED <<bData, fIn, fOut>>

\* the choices of the list d from choice k of node i on, in input order, that
\* name the id of some node: their source, target and label
RECURSIVE ResolvableFrom(_, _, _)
ResolvableFrom(d, i, k) ==
  IF i > Len(d) THEN <<>>
  ELSE IF k > Len(d[i].choices) THEN ResolvableFrom(d, i + 1, 1)
  ELSE (IF \E n \in DOMAIN d : d[n].id = d[i].choices[k].nextId
        THEN << [source |-> d[i].id, target |-> d[i].choices[k].nextId,
                 label |-> d[i].choices[k].text] >>
        ELSE <<>>)
       \o ResolvableFrom(d, i, k + 1)

\* a link without its flag, a node without its position
Ends(l) == [source |-> l.source, target |-> l.target, label |-> l.label]
Unplaced(n) == [id |-> n.id, fx |-> n.fx, fy |-> n.fy]

\* C14: the nodes follow the input order, the links are the resolvable
\* choices in node-then-choice order, and another build from the same list,
\* whatever positions it draws, yields the same nodes (but for their
\* positions), the same links with the same flags, and the same warnings.
C14_BuildDeterministic ==
  bOut.built =>
     /\ Len(bOut.nodes) = Len(bData)
     /\ \A i \in DOMAIN bData : bOut.nodes[i].id = bData[i].id
     /\ [k \in DOMAIN bOut.links |-> Ends(bOut.links[k])] = ResolvableFrom(bData, 1, 1)
     /\ \A q \in Jitter :
           LET again == BuildResult(bData, q)
           IN /\ again.links = bOut.links
              /\ again.warnings = bOut.warnings
              /\ [i \in DOMAIN again.nodes |-> Unplaced(again.nodes[i])]
                   = [i \in DOMAIN bOut.nodes |-> Unplaced(bOut.nodes[i])]

\* a build of a list with two different links, one flagged and one not,
\* which another draw of the positions places elsewhere
C14_Witness ==
  /\ bOut.built
  /\ Len(bOut.links) = 2 /\ bOut.links[1].bidirectional # bOut.links[2].bidirectional
  /\ \E q \in Jitter : BuildResult(bData, q).nodes # bOut.nodes

\* the graph build alone, on every input list of the bounded input space
BuildInit ==
  ViewerInit /\ bData \in BuildInputs /\ bOut = NoBuild /\ fIn = NoArg /\ fOut = NoCall
BuildNext == BuildGraph /\ UNCHANGED vars
BuildSpec == BuildInit /\ [][BuildNext]_allvars

\* the pure functions of the render effect, each on every input of its
\* bounded input space
CallInit ==
  ViewerInit /\ bData = <<>> /\ bOut = NoBuild
    /\ fIn \in PathInputs \cup TextInputs /\ fOut = NoCall
CallNext == (CallLinkPath \/ CallText) /\ UNCHANGED vars
CallSpec == CallInit /\ [][CallNext]_allvars

\* the timers fire as long as they are started (d3-timer: one callback per
\* animation frame), and React runs the passive effects of every commit
FairSpec ==
  SimSpec /\ WF_allvars(Tick) /\ WF_allvars(TickDetached)
          /\ WF_allvars(RunRenderEffect) /\ WF_allvars(RunRepulsionEffect)

(* ======================================================================= *)
(* Properties of the component                                             *)
(* ======================================================================= *)

\* the number of simulations whose timer is started
RunningCount ==
  (IF simulationRef.running THEN 1 ELSE 0)
  + BagCardinality([r \in { q \in BagToSet(detached) : q.running }
                      |-> CopiesIn(r, detached)])

NoneRunning == RunningCount = 0

\* the simulation of simulationRef has been stopped by the effect cleanup
\* and the effect body that followed returned early
StoppedByCleanup == simulationRef.alive /\ ~cleanup

\* a simulation whose alpha has decayed below alphaMin and whose timer is stopped
Idle(sim) == sim.alive /\ ~sim.running /\ sim.alpha < AlphaMin

\* C3: after a render of a node list with a dangling edge target (the
\* render has logged its warning), the onError callback has been called.
C3_OnErrorNotified ==
  Len(consoleWarn) > 0 => onErrorCalls > 0

\* C4: at most one simulation is ticking at any time, and a simulation
\* stopped by the effect cleanup is never ticking again.
C4_OneTickerNoRevival ==
  /\ RunningCount <= 1
  /\ StoppedByCleanup => ~simulationRef.running

\* C5: whenever the most recent node list is empty and its render effect
\* has run, the svg shows no nodes and no edges and no simulation ticks.
C5_EmptyShowsNothing ==
  (data = <<>> /\ pending = "none") => (~svg /\ NoneRunning)

\* C6: the effect of a change of repulsionForce while a simulation exists sets its alpha
\* to 0.3 and leaves it ticking, with the node objects (positions and pins
\* included), the link objects, the drawn paths, the svg content and the
\* replaced simulations exactly as before: no rebuild.
C6_RepulsionReenergizes ==
  [][(RunRepulsionEffect /\ simulationRef.alive) =>
       /\ simulationRef'.alpha = AlphaReset
       /\ simulationRef'.running
       /\ simulationRef'.charge = -repulsionForce'
       /\ simulationRef'.nodes = simulationRef.nodes
       /\ simulationRef'.links = simulationRef.links
       /\ simulationRef'.paths = simulationRef.paths
       /\ svg' = svg /\ cleanup' = cleanup /\ detached' = detached]_allvars

\* a simulation re-energized by a repulsion change before its first tick
C6_Witness ==
  /\ simulationRef.alive /\ simulationRef.running
  /\ simulationRef.alpha = AlphaReset
  /\ simulationRef.charge = -repulsionForce
  /\ repulsionForce # DefaultRepulsion
  /\ \E k \in DOMAIN simulationRef.paths : simulationRef.paths[k] = "unset"

\* some tick of the current simulation changes the position of node n
CanMove(n) ==
  ENABLED (Tick /\ <<simulationRef'.nodes[n].x, simulationRef'.nodes[n].y>>
                     # <<simulationRef.nodes[n].x, simulationRef.nodes[n].y>>)

\* C7: drag start pins the node at its position of that moment, a drag
\* move pins it at the pointer position, drag end clears fx and fy, and an
\* unpinned node is put by every tick where the forces carry it: the tick
\* moves it unless it is there already.
C7_DragPins ==
  /\ [][\A n \in 1..MaxNodes :
          /\ dragstarted(n) =>
               /\ simulationRef'.nodes[n].fx = simulationRef.nodes[n].x
               /\ simulationRef'.nodes[n].fy = simulationRef.nodes[n].y
               /\ simulationRef'.nodes[n].x = simulationRef.nodes[n].x
               /\ simulationRef'.nodes[n].y = simulationRef.nodes[n].y
          /\ \A e \in Points :
               dragged(n, e[1], e[2]) =>
                 /\ simulationRef'.nodes[n].fx = e[1]
                 /\ simulationRef'.nodes[n].fy = e[2]
          /\ dragended(n) =>
               /\ simulationRef'.nodes[n].fx = Null
               /\ simulationRef'.nodes[n].fy = Null]_allvars
  /\ [][Tick => \A n \in DOMAIN simulationRef.nodes :
                   simulationRef.nodes[n].fx = Null =>
                      <<simulationRef'.nodes[n].x, simulationRef'.nodes[n].y>>
                        = Carried(simulationRef)[n]]_allvars
  /\ [](\A n \in DOMAIN simulationRef.nodes :
          (/\ simulationRef.running /\ simulationRef.nodes[n].fx = Null
           /\ <<simulationRef.nodes[n].x, simulationRef.nodes[n].y>>
                # Carried(simulationRef)[n]) => CanMove(n))

\* a gesture in flight whose pin has been moved away from the node's position
C7_Witness ==
  \E n \in DOMAIN simulationRef.nodes :
     /\ simulationRef.nodes[n].grabs > 0
     /\ simulationRef.nodes[n].fx # Null
     /\ simulationRef.nodes[n].fx # simulationRef.nodes[n].x

\* C8 as stated: a drag start on an idle simulation leaves it ticking with
\* alpha raised to 0.3, the value a repulsion change sets.
C8_DragStartResetsAlpha ==
  [][\A n \in 1..MaxNodes :
       (dragstarted(n) /\ Idle(simulationRef)) =>
          (simulationRef'.running /\ simulationRef'.alpha = AlphaReset)]_allvars

\* C8, amended: the first drag start of a gesture set sets alphaTarget (not
\* alpha) to 0.3 and starts the timer, alpha itself is left as it was; while
\* a gesture is in flight alphaTarget stays 0.3 and no tick stops the timer.
C8_DragStartReenergizes ==
  /\ [][\A n \in 1..MaxNodes :
          (dragstarted(n) /\ Active(simulationRef) = 0) =>
             /\ simulationRef'.alphaTarget = DragAlphaTarget
             /\ simulationRef'.running
             /\ simulationRef'.alpha = simulationRef.alpha]_allvars
  /\ [][(Tick /\ Active(simulationRef) > 0) =>
          (simulationRef'.running /\ simulationRef'.alpha >= AlphaMin)]_allvars
  /\ [](Active(simulationRef) > 0 => simulationRef.alphaTarget = DragAlphaTarget)

\* an idle simulation restarted by a drag start, before the next tick
C8_Witness ==
  /\ simulationRef.alive /\ simulationRef.running
  /\ simulationRef.alpha < AlphaMin
  /\ simulationRef.alphaTarget = DragAlphaTarget
  /\ Active(simulationRef) > 0

\* C9: after every tick each pinned node is exactly at (fx, fy); the tick
\* keeps every node, pinned or not, in the node array of the simulation
\* and changes no pin.
C9_PinnedHeld ==
  [][Tick =>
       /\ DOMAIN simulationRef'.nodes = DOMAIN simulationRef.nodes
       /\ \A n \in DOMAIN simulationRef.nodes :
            /\ simulationRef'.nodes[n].id = simulationRef.nodes[n].id
            /\ simulationRef'.nodes[n].fx = simulationRef.nodes[n].fx
            /\ simulationRef'.nodes[n].fy = simulationRef.nodes[n].fy
            /\ simulationRef.nodes[n].fx # Null =>
                 simulationRef'.nodes[n].x = simulationRef.nodes[n].fx
            /\ simulationRef.nodes[n].fy # Null =>
                 simulationRef'.nodes[n].y = simulationRef.nodes[n].fy]_allvars

\* a pinned node at its pin after a tick taken during a gesture: alpha has
\* the value only a tick from the initial alpha toward alphaTarget 0.3 gives
C9_Witness ==
  /\ simulationRef.alive
  /\ simulationRef.alpha = Cool(AlphaInit, DragAlphaTarget)
  /\ \E n \in DOMAIN simulationRef.nodes :
       /\ simulationRef.nodes[n].grabs > 0
       /\ simulationRef.nodes[n].fx # Null
       /\ simulationRef.nodes[n].x = simulationRef.nodes[n].fx
       /\ simulationRef.nodes[n].y = simulationRef.nodes[n].fy

\* a commit that changes the data, the size, the theme or the repulsion
CommitStep ==
  \/ \E d \in DataSets, dim \in Dims : MountCommit(d, dim)
  \/ \E d \in DataSets : DataChange(d)
  \/ \E dim \in Dims : Resize(dim)
  \/ ThemeChange
  \/ \E r \in Repulsions : RepulsionChange(r)

\* the run of the render effect after a change of data, size or theme
RebuildStep == RunRenderEffect

\* the run of the repulsion effect after a change of the repulsion
RepulsionStep == RunRepulsionEffect

DragStartStep == \E n \in 1..MaxNodes : dragstarted(n)

\* a step that is none of the disturbances
Quiet == ~(CommitStep \/ DragStartStep)

\* C10: if from some point on there is no data, size, theme or repulsion
\* change and no drag start, and no gesture is in flight, then eventually
\* and for good no simulation ticks and the alpha of the simulation of
\* simulationRef is below alphaMin.
C10_DecaysToIdle ==
  (<>[][Quiet]_allvars /\ <>[](GesturesInFlight = 0)) =>
     <>[](NoneRunning /\ (simulationRef.alive => simulationRef.alpha < AlphaMin))

\* what the layout consists of: the node objects (identity, position, pin),
\* the link objects and the cooling state of the simulation
Layout(sim) ==
  [nodes |-> sim.nodes, links |-> sim.links, alpha |-> sim.alpha,
   alphaTarget |-> sim.alphaTarget, running |-> sim.running]

\* C15: a theme change leaves the layout as it was: the node positions, the
\* pins, the node and link identities and the cooling state of the
\* simulation are the same after the change as before it.
C15_ThemeKeepsLayout ==
  [][(RunRenderEffect /\ pending = "theme") =>
       Layout(simulationRef') = Layout(simulationRef)]_allvars

\* an event of a zoom or pan gesture
ZoomStep ==
  \/ zoomstarted
  \/ \E f \in ZoomFactors, pan \in Pans : zoomed(f, pan)
  \/ \E f \in ZoomFactors, pan \in Pans : zoomedStale(f, pan)
  \/ zoomended

\* a step of a drag gesture on a node of the simulation on display or of a
\* replaced one
DragStep ==
  \/ DragStartStep
  \/ \E n \in 1..MaxNodes, e \in Points : dragged(n, e[1], e[2])
  \/ \E n \in 1..MaxNodes : dragended(n)
  \/ dragendedDetached

\* C16: the scale of the viewport transform is always within [0.1, 4]; a
\* zoom or pan event changes only the transform of the rendered group and
\* leaves every node position, every pin and the cooling state unchanged;
\* a drag start, move or end leaves the viewport transform unchanged.
C16_ZoomIndependent ==
  /\ [](/\ ZoomMin <= zoomT.k /\ zoomT.k <= ZoomMax
        /\ ZoomMin <= gT.k /\ gT.k <= ZoomMax)
  /\ [][ZoomStep =>
          /\ simulationRef' = simulationRef
          /\ detached' = detached
          /\ <<data, dimensions, isDarkMode, repulsionForce>>'
               = <<data, dimensions, isDarkMode, repulsionForce>>]_allvars
  /\ [][DragStep => (zoomT' = zoomT /\ gT' = gT)]_allvars

\* the viewport zoomed out to the smallest scale while a gesture holds a
\* node pinned away from its position and the simulation ticks
C16_Witness ==
  /\ zoomT.k = ZoomMin /\ gT = zoomT
  /\ simulationRef.running /\ simulationRef.alpha < AlphaInit
  /\ \E n \in DOMAIN simulationRef.nodes :
       /\ simulationRef.nodes[n].grabs > 0
       /\ simulationRef.nodes[n].fx # simulationRef.nodes[n].x

\* a simulation as the render effect leaves it: ticking at the initial
\* alpha, no node pinned or held by a gesture, no path drawn yet
Fresh(sim) ==
  /\ sim.alive /\ sim.running
  /\ sim.alpha = AlphaInit /\ sim.alphaTarget = 0
  /\ \A n \in DOMAIN sim.nodes :
       sim.nodes[n].fx = Null /\ sim.nodes[n].fy = Null /\ sim.nodes[n].grabs = 0
  /\ \A k \in DOMAIN sim.paths : sim.paths[k] = "unset"

\* C17: a change of the node list, of the size or of the theme (to a list
\* and a size that can be drawn) stops the previous simulation, creates all
\* nodes anew without pins and starts a new simulation; a change of the
\* repulsion alone replaces nothing.
C17_RebuildReplacesAll ==
  /\ [][(RebuildStep /\ data' # <<>> /\ dimensions'.width # 0) =>
          /\ Fresh(simulationRef')
          /\ \A r \in BagToSet(detached') : ~r.running]_allvars
  /\ [][RepulsionStep =>
          /\ simulationRef'.nodes = simulationRef.nodes
          /\ simulationRef'.links = simulationRef.links
          /\ detached' = detached
          /\ svg' = svg /\ cleanup' = cleanup]_allvars

\* C18: a drag end leaves alpha unchanged and starts no timer; it lowers
\* alphaTarget to 0 exactly when no other gesture is in flight, so that
\* with overlapping gestures alphaTarget stays 0.3 until the last one ends.
C18_DragEndNoReenergize ==
  [][\A n \in 1..MaxNodes :
       dragended(n) =>
         /\ simulationRef'.alpha = simulationRef.alpha
         /\ simulationRef'.running = simulationRef.running
         /\ Active(simulationRef) = 1 => simulationRef'.alphaTarget = 0
         /\ Active(simulationRef) > 1 =>
              /\ simulationRef'.alphaTarget = DragAlphaTarget
              /\ simulationRef'.alphaTarget = simulationRef.alphaTarget]_allvars

\* one of two overlapping gestures on a node has ended (the pin is cleared,
\* the other gesture still holds the node) and the simulation has been left
\* with alphaTarget 0.3
C18_Witness ==
  /\ simulationRef.alive
  /\ simulationRef.alphaTarget = DragAlphaTarget
  /\ \E n \in DOMAIN simulationRef.nodes :
       simulationRef.nodes[n].grabs = 1 /\ simulationRef.nodes[n].fx = Null

\* the pin fields of the nodes of a simulation
Pins(sim) == [n \in DOMAIN sim.nodes |-> <<sim.nodes[n].fx, sim.nodes[n].fy>>]

\* C19: fx and fy are written by the drag handlers only: a tick (with the
\* path geometry it draws), a repulsion change and a zoom or pan event leave
\* every pin as it was, a rebuild creates nodes without pins, and a node is
\* pinned only while a drag gesture holds it, so a node not dragged since
\* the last rebuild has no pin.
C19_PinsOnlyByDrag ==
  /\ [][(Tick \/ TickDetached \/ RepulsionStep \/ ZoomStep) =>
          Pins(simulationRef') = Pins(simulationRef)]_allvars
  /\ [][Pins(simulationRef') # Pins(simulationRef) =>
          \/ DragStep
          \/ RebuildStep /\ \A n \in DOMAIN simulationRef'.nodes :
                              /\ simulationRef'.nodes[n].fx = Null
                              /\ simulationRef'.nodes[n].fy = Null]_allvars
  /\ [](\A n \in DOMAIN simulationRef.nodes :
          (simulationRef.nodes[n].fx # Null \/ simulationRef.nodes[n].fy # Null)
             => simulationRef.nodes[n].grabs > 0)

\* a pin away from the viewport centre is in place after a tick has drawn the
\* paths, the viewport has been zoomed in fully and the repulsion changed
C19_Witness ==
  /\ zoomT.k = ZoomMax
  /\ repulsionForce # DefaultRepulsion /\ simulationRef.alpha = AlphaReset
  /\ \A k \in DOMAIN simulationRef.paths : simulationRef.paths[k] # "unset"
  /\ \E n \in DOMAIN simulationRef.nodes :
       /\ simulationRef.nodes[n].fx # Null
       /\ simulationRef.nodes[n].fx # dimensions.width \div 2

C21_GroupFollowsZoom ==
  gT = zoomT

\* a link from a node to itself
SelfLink(l) == l.source = l.target

\* C22: a choice whose nextId is the id of its own node yields a link
\* flagged bidirectional, and every tick gives that link the empty path,
\* its two ends being the same node: the link is never drawn.
C22_SelfLoopNeverDrawn ==
  /\ []((cleanup /\ pending = "none") =>
          \A i \in DOMAIN data : \A c \in DOMAIN data[i].choices :
             data[i].choices[c].nextId = data[i].id =>
               \E k \in DOMAIN simulationRef.links :
                  simulationRef.links[k] =
                    [source |-> data[i].id, target |-> data[i].id,
                     label |-> data[i].choices[c].text, bidirectional |-> TRUE])
  /\ [](\A k \in DOMAIN simulationRef.links :
          SelfLink(simulationRef.links[k]) =>
             /\ simulationRef.links[k].bidirectional
             /\ simulationRef.paths[k] \in {"unset", ""})
  /\ [][Tick => \A k \in DOMAIN simulationRef'.links :
                   SelfLink(simulationRef'.links[k]) =>
                      simulationRef'.paths[k] = ""]_allvars

\* the self-link of a node has been given the empty path by a tick that
\* held the node at the pin of a gesture
C22_Witness ==
  /\ cleanup
  /\ \E k \in DOMAIN simulationRef.links :
       /\ SelfLink(simulationRef.links[k])
       /\ simulationRef.links[k].bidirectional
       /\ simulationRef.paths[k] = ""
  /\ \E n \in DOMAIN simulationRef.nodes :
       /\ simulationRef.nodes[n].grabs > 0
       /\ simulationRef.nodes[n].x = simulationRef.nodes[n].fx

====
